---------------------------- MODULE Spec2Model ----------------------------
(***************************************************************************)
(* A model of generate_playlists.py: the Stirr playlist generator.        *)
(*                                                                         *)
(*   fetch_url          -> operator fetch_url                              *)
(*   write_m3u_file     -> operator write_m3u_file                         *)
(*   format_extinf      -> operator format_extinf                          *)
(*   generate_stirr_m3u -> the actions Fetch, Check, Sort, BuildEntry,     *)
(*                         Write, one per statement group of the function  *)
(*                                                                         *)
(* Python values are tagged records.  A str is a sequence of text atoms:   *)
(* text that comes from the catalog is one atom per character, the fixed   *)
(* pieces of the program's templates are one atom per piece, and the       *)
(* delimiters of the playlist format (double quote, comma, newline) are    *)
(* always atoms of their own.                                              *)
(***************************************************************************)
EXTENDS Integers, Sequences, FiniteSets, TLC

VARIABLES
    mode,                \* which function is under call
    pc,                  \* position in the function under call
    response,            \* what requests.get(url) yields
    call_args,           \* the arguments of the call under test
    result,              \* outcome of the call under test: [exc, val]
    sort,                \* generate_stirr_m3u: the sort argument
    data,                \* generate_stirr_m3u: data
    channels_to_process, \* generate_stirr_m3u: channels_to_process
    sorted_channel_ids,  \* generate_stirr_m3u: sorted_channel_ids
    sort_failed,         \* generate_stirr_m3u: the except branch of the sort ran
    output_lines,        \* generate_stirr_m3u: output_lines
    written,             \* the (filename, content) write_m3u_file was called with
    fs,                  \* the filesystem: output directory and playlist file
    fs0,                 \* the filesystem before the call
    log                  \* the records handed to logging

vars == <<mode, pc, response, call_args, result, sort, data, channels_to_process,
          sorted_channel_ids, sort_failed, output_lines, written, fs, fs0, log>>

-----------------------------------------------------------------------------
(* Bounds of the model *)

MaxChannels == 2
MaxSortChannels == 3
MaxLen == 2

-----------------------------------------------------------------------------
(* Python values *)

None == [t |-> "None"]
PyInt(n) == [t |-> "int", i |-> n]
PyBool(b) == [t |-> "bool", b |-> b]
PyStr(s) == [t |-> "str", s |-> s]
PyList(l) == [t |-> "list", l |-> l]
\* a dict keeps insertion order: a sequence of <<key, value>>, keys distinct
PyDict(items) == [t |-> "dict", items |-> items]

\* the outcome of evaluating a piece of code: a value, or an exception
Return(v, lg) == [exc |-> "none", val |-> v, log |-> lg]
Raise(e, lg) == [exc |-> e, val |-> None, log |-> lg]

\* bool(v): a value's truth
Truthy(v) ==
    CASE v.t = "None" -> FALSE
      [] v.t = "int"  -> v.i # 0
      [] v.t = "bool" -> v.b
      [] v.t = "str"  -> v.s # << >>
      [] v.t = "list" -> v.l # << >>
      [] v.t = "dict" -> v.items # << >>
      [] OTHER        -> TRUE

Keys(d) == [k \in 1..Len(d.items) |-> d.items[k][1]]
HasKey(d, key) == \E k \in 1..Len(d.items) : d.items[k][1] = key
\* d[key]
Lookup(d, key) == d.items[CHOOSE k \in 1..Len(d.items) : d.items[k][1] = key][2]
\* d.get(key, default)
Get(d, key, default) == IF HasKey(d, key) THEN Lookup(d, key) ELSE default

\* needle in haystack, for two str
IsSubstring(needle, hay) ==
    \E k \in 0..(Len(hay) - Len(needle)) :
        \A j \in 1..Len(needle) : hay[k + j] = needle[j]

-----------------------------------------------------------------------------
(* fetch_url *)

\* the text of a response: a JSON document of value `value`, text that is
\* no JSON document, or the empty text
JsonText(v) == [t |-> "text", kind |-> "json", value |-> v]
MalformedText == [t |-> "text", kind |-> "malformed", value |-> None]
EmptyText == [t |-> "text", kind |-> "empty", value |-> None]

\* bytes: `enc` says what gzip makes of them ("gzip": a gzip stream,
\* "plain": no gzip magic, "truncated": a gzip stream cut short,
\* "trailing": a gzip stream followed by bytes that are none, "empty": no
\* bytes), `utf8` whether the payload is valid UTF-8 of `text`
Bytes(enc, utf8, text) == [enc |-> enc, utf8 |-> utf8, text |-> text]

\* gzip.GzipFile(fileobj=BytesIO(content)).read()
GzipRead(content) ==
    CASE content.enc = "gzip"      -> Return(Bytes("plain", content.utf8, content.text), << >>)
      [] content.enc = "empty"     -> Return(content, << >>)
      [] content.enc = "plain"     -> Raise("BadGzipFile", << >>)
      [] content.enc = "trailing"  -> Raise("BadGzipFile", << >>)
      [] content.enc = "truncated" -> Raise("EOFError", << >>)

\* content.decode('utf-8'): a gzip stream starts 1f 8b, which is no UTF-8
Utf8Decode(content) ==
    CASE content.enc = "empty" -> Return(EmptyText, << >>)
      [] content.enc = "plain" /\ content.utf8 -> Return(content.text, << >>)
      [] OTHER -> Raise("UnicodeDecodeError", << >>)

\* json.loads(content); JSON null loads as None
JsonLoads(content) ==
    IF content.kind = "json" THEN Return(content.value, << >>)
    ELSE Raise("JSONDecodeError", << >>)

\* lines 29-44: the body of the response as text
DecodeContentRaisingBadGzip(content, is_gzipped) ==
    IF is_gzipped
    THEN LET g == GzipRead(content)
             lg == <<"INFO Decompressing gzipped content.">>
         IN  IF g.exc = "none"
             THEN LET d == Utf8Decode(g.val)
                  IN  IF d.exc = "none" THEN Return(d.val, lg)
                      ELSE Raise(d.exc, lg \o <<"ERROR Error decompressing gzip">>)
             ELSE Raise(g.exc, lg \o <<"ERROR Error decompressing gzip">>)
    ELSE LET d == Utf8Decode(content) IN [d EXCEPT !.log = << >>]

DecodeContent(content, is_gzipped) ==
    IF is_gzipped
    THEN LET g == GzipRead(content)
             lg == <<"INFO Decompressing gzipped content.">>
         IN  IF g.exc = "none"
             THEN LET d == Utf8Decode(g.val)
                  IN  IF d.exc = "none" THEN Return(d.val, lg)
                      \* except Exception: log and re-raise
                      ELSE Raise(d.exc, lg \o <<"ERROR Error decompressing gzip">>)
             ELSE IF g.exc = "BadGzipFile"
             THEN LET d == Utf8Decode(content)
                      lw == lg \o <<"WARNING Content was not gzipped, trying as plain text.">>
                  IN  [d EXCEPT !.log = lw]
             ELSE Raise(g.exc, lg \o <<"ERROR Error decompressing gzip">>)
    ELSE LET d == Utf8Decode(content) IN [d EXCEPT !.log = << >>]

\* lines 21-51: the try block
FetchBody(resp, is_json, is_gzipped, stream) ==
    IF resp.net # "ok"
    THEN Raise(resp.net, << >>)      \* requests.get or raise_for_status raised
    ELSE IF stream
    THEN Return([t |-> "Response", content |-> resp.content],
                <<"INFO Returning streaming response.">>)
    ELSE LET d == DecodeContent(resp.content, is_gzipped)
         IN  IF d.exc # "none" THEN d
             ELSE IF is_json
             THEN LET j == JsonLoads(d.val)
                  IN  [j EXCEPT !.log = d.log \o <<"INFO Parsing JSON data.">>]
             ELSE Return(d.val, d.log \o <<"INFO Returning raw text content.">>)

\* isinstance(e, requests.exceptions.RequestException)
IsRequestException(e) == e \in {"ConnectionError", "Timeout", "HTTPError"}

\* lines 53-61 without the last handler
HandleFetchNoCatchAll(r) ==
    IF r.exc = "none" THEN r
    ELSE IF IsRequestException(r.exc)
    THEN Return(None, r.log \o <<"ERROR Error fetching">>)
    ELSE IF r.exc = "JSONDecodeError"
    THEN Return(None, r.log \o <<"ERROR Error decoding JSON">>)
    ELSE r

\* lines 53-61: the except clauses of fetch_url
HandleFetch(r) ==
    IF r.exc = "none" THEN r
    ELSE IF IsRequestException(r.exc)
    THEN Return(None, r.log \o <<"ERROR Error fetching">>)
    ELSE IF r.exc = "JSONDecodeError"
    THEN Return(None, r.log \o <<"ERROR Error decoding JSON">>)
    ELSE Return(None, r.log \o <<"ERROR An unexpected error occurred">>)

fetch_url(resp, is_json, is_gzipped, stream) ==
    LET r == HandleFetch(FetchBody(resp, is_json, is_gzipped, stream))
    IN  [r EXCEPT !.log = <<"INFO Fetching URL">> \o r.log]

-----------------------------------------------------------------------------
(* str operations *)

DQ == "\""
SQ == "'"
COMMA == ","
NL == "\n"

Digits == <<"0", "1", "2", "3", "4", "5", "6", "7", "8", "9">>
DigitValue(c) == (CHOOSE k \in 1..10 : Digits[k] = c) - 1
IsDigit(c) == \E k \in 1..10 : Digits[k] = c

\* the characters of the model's catalog texts in code point order
CodePointOrder ==
    <<NL, " ", DQ, SQ, COMMA, "-", "0", "1", "2", "3", "4", "5", "6", "7", "8", "9",
      "A", "B", "L", "N", "Z", "a", "b", "c", "e", "g", "l", "n", "o", "p", "r", "s", "w", "x", "z">>
Ord(c) == CHOOSE k \in 1..Len(CodePointOrder) : CodePointOrder[k] = c

\* str.lower() on one character
LowerChar(c) ==
    CASE c = "A" -> "a" [] c = "B" -> "b" [] c = "L" -> "l"
      [] c = "N" -> "n" [] c = "Z" -> "z" [] OTHER -> c
\* s.lower()
Lower(s) == [k \in 1..Len(s) |-> LowerChar(s[k])]

\* a < b for two str: lexicographic by code point
RECURSIVE StrLess(_, _)
StrLess(a, b) ==
    IF b = << >> THEN FALSE
    ELSE IF a = << >> THEN TRUE
    ELSE IF Head(a) = Head(b) THEN StrLess(Tail(a), Tail(b))
    ELSE Ord(Head(a)) < Ord(Head(b))

\* s.replace(old, new) for a one-character old; new is a str
RECURSIVE Replace(_, _, _)
Replace(s, old, new) ==
    IF s = << >> THEN << >>
    ELSE (IF Head(s) = old THEN new ELSE <<Head(s)>>) \o Replace(Tail(s), old, new)

\* "".join(parts) for a sequence of str
RECURSIVE Concat(_)
Concat(parts) ==
    IF parts = << >> THEN << >> ELSE Head(parts) \o Concat(Tail(parts))

\* sep.join(parts) for a sequence of str
RECURSIVE Join(_, _)
Join(sep, parts) ==
    IF parts = << >> THEN << >>
    ELSE IF Len(parts) = 1 THEN parts[1]
    ELSE parts[1] \o sep \o Join(sep, Tail(parts))

\* str(n) for an int
RECURSIVE NatToStr(_)
NatToStr(n) ==
    IF n < 10 THEN <<Digits[n + 1]>>
    ELSE NatToStr(n \div 10) \o <<Digits[(n % 10) + 1]>>
IntToStr(n) == IF n < 0 THEN <<"-">> \o NatToStr(-n) ELSE NatToStr(n)

\* s.isdigit()
IsDigitStr(s) == s # << >> /\ \A k \in 1..Len(s) : IsDigit(s[k])

RECURSIVE DigitsToNat(_)
DigitsToNat(s) ==
    IF s = << >> THEN 0
    ELSE 10 * DigitsToNat(SubSeq(s, 1, Len(s) - 1)) + DigitValue(s[Len(s)])

\* str(v), as an f-string renders a value
Str(v) ==
    CASE v.t = "str"  -> v.s
      [] v.t = "None" -> <<"None">>
      [] v.t = "int"  -> IntToStr(v.i)
      [] v.t = "bool" -> IF v.b THEN <<"True">> ELSE <<"False">>
      [] OTHER        -> <<"<repr>">>

\* int(v)
IntOf(v) ==
    CASE v.t = "int"  -> Return(v.i, << >>)
      [] v.t = "bool" -> Return(IF v.b THEN 1 ELSE 0, << >>)
      [] v.t = "str"  ->
            IF IsDigitStr(v.s) THEN Return(DigitsToNat(v.s), << >>)
            ELSE IF Len(v.s) > 1 /\ v.s[1] = "-" /\ IsDigitStr(Tail(v.s))
            THEN Return(-DigitsToNat(Tail(v.s)), << >>)
            ELSE Raise("ValueError", << >>)
      [] OTHER        -> Raise("TypeError", << >>)

-----------------------------------------------------------------------------
(* format_extinf *)

\* line 80
ChnoStr(tvg_chno) ==
    IF tvg_chno.t # "None" /\ IsDigitStr(Str(tvg_chno)) THEN Str(tvg_chno) ELSE << >>

\* lines 87-94: the f-string
ExtinfLine(channel_id, tvg_id, chno_str, name, tvg_logo, group, display) ==
    <<"#EXTINF:-1 channel-id=", DQ>> \o Str(channel_id)
        \o <<DQ, " tvg-id=", DQ>> \o Str(tvg_id)
        \o <<DQ, " tvg-chno=", DQ>> \o chno_str
        \o <<DQ, " tvg-name=", DQ>> \o name
        \o <<DQ, " tvg-logo=", DQ>> \o Str(tvg_logo)
        \o <<DQ, " group-title=", DQ>> \o group
        \o <<DQ, COMMA>> \o display \o <<NL>>

\* format_extinf that does not sanitize
format_extinf_raw(channel_id, tvg_id, tvg_chno, tvg_name, tvg_logo, group_title, display_name) ==
    IF tvg_name.t # "str" \/ group_title.t # "str" \/ display_name.t # "str"
    THEN Raise("AttributeError", << >>)
    ELSE Return(PyStr(ExtinfLine(channel_id, tvg_id, ChnoStr(tvg_chno),
                                 tvg_name.s, tvg_logo, group_title.s, display_name.s)), << >>)

\* lines 77-94; .replace is a method of str alone
format_extinf(channel_id, tvg_id, tvg_chno, tvg_name, tvg_logo, group_title, display_name) ==
    IF tvg_name.t # "str" \/ group_title.t # "str" \/ display_name.t # "str"
    THEN Raise("AttributeError", << >>)
    ELSE LET sanitized_tvg_name == Replace(tvg_name.s, DQ, <<SQ>>)
             sanitized_group_title == Replace(group_title.s, DQ, <<SQ>>)
             sanitized_display_name == Replace(display_name.s, COMMA, << >>)
         IN  Return(PyStr(ExtinfLine(channel_id, tvg_id, ChnoStr(tvg_chno),
                                     sanitized_tvg_name, tvg_logo, sanitized_group_title,
                                     sanitized_display_name)), << >>)

-----------------------------------------------------------------------------
(* write_m3u_file *)

NoFile == [t |-> "nofile"]
\* what an interrupted write leaves of a file opened with mode 'w'
PartialFile == [t |-> "partial"]

\* lines 63-75.  makedirs_outcome and io_outcome are what the filesystem
\* answers: os.makedirs succeeds or raises OSError; open raises IOError, or
\* opens (and truncates) the file and write or close raises IOError, or
\* all succeed.  os.makedirs is called outside the try.
write_m3u_file(fsys, filename, content, makedirs_outcome, io_outcome) ==
    LET create == ~fsys.dir
        lg == IF create THEN <<"INFO Creating output directory">> ELSE << >>
        made == [fsys EXCEPT !.dir = TRUE]
    IN  IF create /\ makedirs_outcome # "ok"
        THEN [exc |-> "OSError", fs |-> fsys, log |-> lg]
        ELSE CASE io_outcome = "ok" ->
                    [exc |-> "none", fs |-> [made EXCEPT !.file = PyStr(content)],
                     log |-> lg \o <<"INFO Successfully wrote playlist">>]
               [] io_outcome = "open_fails" ->
                    [exc |-> "none", fs |-> made,
                     log |-> lg \o <<"ERROR Error writing file">>]
               [] io_outcome = "write_fails" ->
                    [exc |-> "none", fs |-> [made EXCEPT !.file = PartialFile],
                     log |-> lg \o <<"ERROR Error writing file">>]

-----------------------------------------------------------------------------
(* generate_stirr_m3u: its expressions *)

EPG_URL == <<"https://github.com/matthuisman/i.mjh.nz/raw/master/Stirr/all.xml.gz">>
STREAM_URL_TEMPLATE == <<"https://jmp2.uk/str-", "{id}", ".m3u8">>
PLAYLIST_FILE == "stirr_all.m3u"
\* line 115: the channel number of a channel that has none
MissingChno == 99999

K_channels == <<"channels">>
K_name == <<"name">>
K_chno == <<"chno">>
K_logo == <<"logo">>
K_groups == <<"groups">>

\* line 109
HeaderLine == <<"#EXTM3U url-tvg=", DQ>> \o EPG_URL \o <<DQ, NL>>

\* 'channels' in data
ContainsChannels(d) ==
    CASE d.t = "dict" -> Return(HasKey(d, K_channels), << >>)
      [] d.t = "str"  -> Return(IsSubstring(K_channels, d.s), << >>)
      [] d.t = "list" -> Return(\E k \in 1..Len(d.l) : d.l[k] = PyStr(K_channels), << >>)
      [] OTHER        -> Raise("TypeError", << >>)

\* the key lambdas of lines 115 and 117, without .lower()
SortKeyCaseSensitive(srt, channels, k) ==
    LET channel == Lookup(channels, k)
    IN  IF channel.t # "dict" THEN Raise("AttributeError", << >>)
        ELSE IF srt = "chno"
        THEN IntOf(Get(channel, K_chno, PyInt(MissingChno)))
        ELSE LET name == Get(channel, K_name, PyStr(<< >>))
             IN  IF name.t # "str" THEN Raise("AttributeError", << >>)
                 ELSE Return(name.s, << >>)

\* the key lambdas of lines 115 and 117, a channel without a number first
SortKeyMissingFirst(srt, channels, k) ==
    LET channel == Lookup(channels, k)
    IN  IF channel.t # "dict" THEN Raise("AttributeError", << >>)
        ELSE IF srt = "chno"
        THEN IntOf(Get(channel, K_chno, PyInt(0)))
        ELSE LET name == Get(channel, K_name, PyStr(<< >>))
             IN  IF name.t # "str" THEN Raise("AttributeError", << >>)
                 ELSE Return(Lower(name.s), << >>)

\* the key lambdas of lines 115 and 117
SortKey(srt, channels, k) ==
    LET channel == Lookup(channels, k)
    IN  IF channel.t # "dict" THEN Raise("AttributeError", << >>)
        ELSE IF srt = "chno"
        THEN IntOf(Get(channel, K_chno, PyInt(MissingChno)))
        ELSE LET name == Get(channel, K_name, PyStr(<< >>))
             IN  IF name.t # "str" THEN Raise("AttributeError", << >>)
                 ELSE Return(Lower(name.s), << >>)

\* a < b for two sort keys: int in chno mode, str otherwise
KeyLess(srt, a, b) == IF srt = "chno" THEN a < b ELSE StrLess(a, b)

\* sorted(ids, key=...): stable, ascending.  key maps each id to its key.
RECURSIVE InsertByKey(_, _, _, _)
InsertByKey(srt, key, done, x) ==
    IF done = << >> THEN <<x>>
    ELSE IF KeyLess(srt, key[x], key[done[Len(done)]])
    THEN InsertByKey(srt, key, SubSeq(done, 1, Len(done) - 1), x) \o <<done[Len(done)]>>
    ELSE done \o <<x>>

RECURSIVE SortedByKey(_, _, _)
SortedByKey(srt, key, ids) ==
    IF ids = << >> THEN << >>
    ELSE InsertByKey(srt, key, SortedByKey(srt, key, SubSeq(ids, 1, Len(ids) - 1)),
                     ids[Len(ids)])

\* lines 113-120 for a dict: the order, and whether the except branch ran
SortChannels(srt, channels) ==
    LET ids == Keys(channels)
        idset == {ids[k] : k \in 1..Len(ids)}
        keyed == [x \in idset |-> SortKey(srt, channels, x)]
    IN  IF \E x \in idset : keyed[x].exc # "none"
        THEN [order |-> ids, failed |-> TRUE]
        ELSE [order |-> SortedByKey(srt, [x \in idset |-> keyed[x].val], ids),
              failed |-> FALSE]

\* line 129: ', '.join(groups_list) if groups_list else 'Uncategorized'
GroupTitle(groups_list) ==
    IF ~Truthy(groups_list) THEN Return(<<"Uncategorized">>, << >>)
    ELSE CASE groups_list.t = "list" ->
                IF \A k \in 1..Len(groups_list.l) : groups_list.l[k].t = "str"
                THEN Return(Join(<<COMMA, " ">>,
                                 [k \in 1..Len(groups_list.l) |-> groups_list.l[k].s]), << >>)
                ELSE Raise("TypeError", << >>)
           [] groups_list.t = "str" ->
                Return(Join(<<COMMA, " ">>,
                            [k \in 1..Len(groups_list.s) |-> <<groups_list.s[k]>>]), << >>)
           [] groups_list.t = "dict" ->
                Return(Join(<<COMMA, " ">>, Keys(groups_list)), << >>)
           [] OTHER -> Raise("TypeError", << >>)

\* lines 124-135: the two lines of one channel
ChannelLines(channels, channel_id) ==
    LET channel == Lookup(channels, channel_id)
    IN  IF channel.t # "dict" THEN Raise("AttributeError", << >>)
        ELSE LET chno == Get(channel, K_chno, None)
                 name == Get(channel, K_name, PyStr(<<"Unknown Channel">>))
                 logo == Get(channel, K_logo, PyStr(<< >>))
                 group_title == GroupTitle(Get(channel, K_groups, PyList(<< >>)))
             IN  IF group_title.exc # "none" THEN group_title
                 ELSE LET extinf == format_extinf(PyStr(channel_id), PyStr(channel_id), chno,
                                                  name, logo, PyStr(group_title.val), name)
                          stream_url == Replace(STREAM_URL_TEMPLATE, "{id}", channel_id)
                      IN  IF extinf.exc # "none" THEN extinf
                          ELSE Return(<<extinf.val.s, stream_url \o <<NL>>>>, << >>)

-----------------------------------------------------------------------------
(* The inputs *)

Unset == [t |-> "unset"]
NotCalled == [t |-> "not_called"]
NoArgs == [t |-> "no_args"]
NoResult == [exc |-> "none", val |-> Unset, at |-> "running"]

\* every str of at most n characters of the alphabet
Strings(alphabet, n) == UNION {[1..m -> alphabet] : m \in 0..n}
\* every sequence of at most n elements of S
SeqsUpTo(S, n) == UNION {[1..m -> S] : m \in 0..n}

ChannelIds == << <<"s", "1">>, <<"s", "2">>, <<"s", "3">>, <<"s", "4">>, <<"s", "5">> >>

\* the parsed catalog: a 'channels' dict of the given records, under the first ids
Catalog(records) ==
    PyDict(<< <<K_channels,
                PyDict([k \in 1..Len(records) |-> <<ChannelIds[k], records[k]>>])>> >>)

Field(key, v) == PyDict(<< <<key, v>> >>)

Apple == <<"A", "p", "p", "l", "e">>
apple == <<"a", "p", "p", "l", "e">>
zebra == <<"z", "e", "b", "r", "a">>
Zebra == <<"Z", "e", "b", "r", "a">>
News == <<"N", "e", "w", "s">>
Local == <<"L", "o", "c", "a", "l">>

\* channel records that differ in 'name': absent, text, null, a number
NameRecords ==
    {PyDict(<< >>)} \cup
    {Field(K_name, v) : v \in {PyStr(Apple), PyStr(apple), PyStr(zebra), PyStr(Zebra),
                               None, PyInt(5)}}

\* channel records that differ in 'chno': absent, numbers below and above
\* MissingChno, digits as text, text that is no number, null
ChnoRecords ==
    {PyDict(<< >>)} \cup
    {Field(K_chno, v) : v \in {PyInt(10), PyInt(20), PyInt(30), PyInt(MissingChno + 1),
                               PyStr(<<"1", "5">>), PyStr(<<"a", "b", "c">>), None}}

\* channel records of every shape the JSON may have
ShapeRecords ==
    { PyDict(<< <<K_name, PyStr(News \o <<COMMA, " ">> \o Local)>>, <<K_chno, PyInt(7)>>,
                <<K_logo, PyStr(<<"l">>)>>,
                <<K_groups, PyList(<<PyStr(News), PyStr(Local)>>)>> >>),
      PyDict(<< >>),
      Field(K_name, PyStr(<<"a", NL, "b">>)),
      Field(K_name, PyStr(<<"a", DQ, "b">>)),
      Field(K_name, None),
      Field(K_name, PyInt(5)),
      Field(K_chno, PyStr(<<"a", "b", "c">>)),
      Field(K_chno, None),
      Field(K_groups, PyList(<< >>)),
      Field(K_groups, PyList(<<PyInt(1)>>)),
      Field(K_groups, PyStr(News)),
      Field(K_groups, None),
      Field(K_logo, None),
      None,
      PyStr(News),
      PyList(<< >>) }

\* parsed JSON that is no catalog
OtherData ==
    { None, PyInt(0), PyInt(5), PyBool(TRUE), PyBool(FALSE),
      PyStr(<< >>), PyStr(<<"a", "b">>), PyStr(<<"x", "channels", "x">>),
      PyList(<< >>), PyList(<<PyInt(1)>>), PyList(<<PyStr(K_channels)>>),
      PyDict(<< >>), Field(<<"other">>, PyInt(1)),
      Field(K_channels, None), Field(K_channels, PyList(<<PyInt(1)>>)),
      Field(K_channels, PyInt(5)), Field(K_channels, PyStr(News)) }

OkResponse(v) == [net |-> "ok", content |-> Bytes("gzip", TRUE, JsonText(v))]

NetOutcomes == {"ok", "ConnectionError", "Timeout", "HTTPError", "RuntimeError"}

\* response bodies of every kind
Contents ==
    {Bytes("empty", TRUE, EmptyText)} \cup
    {Bytes(enc, utf8, text) :
        enc \in {"gzip", "plain", "truncated", "trailing"}, utf8 \in BOOLEAN,
        text \in {MalformedText, JsonText(None), JsonText(PyInt(5)),
                  JsonText(PyStr(<<"a">>)), JsonText(Catalog(<<PyDict(<< >>)>>))}}

Responses == [net : NetOutcomes, content : Contents]

\* responses that fail the fetch of the catalog, one of each kind
FailedResponses ==
    { [net |-> "ConnectionError", content |-> Bytes("empty", TRUE, EmptyText)],
      [net |-> "HTTPError", content |-> Bytes("plain", TRUE, MalformedText)],
      [net |-> "ok", content |-> Bytes("truncated", TRUE, JsonText(Catalog(<< >>)))],
      [net |-> "ok", content |-> Bytes("gzip", FALSE, JsonText(Catalog(<< >>)))],
      [net |-> "ok", content |-> Bytes("plain", TRUE, MalformedText)] }

FsStates ==
    { [dir |-> FALSE, file |-> NoFile],
      [dir |-> TRUE, file |-> NoFile],
      [dir |-> TRUE, file |-> PyStr(<<"old">>)] }

MakedirsOutcomes == {"ok", "OSError"}
IoOutcomes == {"ok", "open_fails", "write_fails"}

-----------------------------------------------------------------------------
(* generate_stirr_m3u: its steps *)

InitGenerate(responses, sorts, fss) ==
    /\ mode = "generate_stirr_m3u"
    /\ pc = "fetch"
    /\ response \in responses
    /\ sort \in sorts
    /\ fs0 \in fss
    /\ fs = fs0
    /\ call_args = NoArgs
    /\ result = NoResult
    /\ data = Unset
    /\ channels_to_process = Unset
    /\ sorted_channel_ids = << >>
    /\ sort_failed = FALSE
    /\ output_lines = << >>
    /\ written = NotCalled
    /\ log = <<"INFO --- Generating Stirr playlist ---">>

Returned(at) == [exc |-> "none", val |-> None, at |-> at]
Raised(e, at) == [exc |-> e, val |-> None, at |-> at]

\* line 104
Fetch ==
    /\ mode = "generate_stirr_m3u"
    /\ pc = "fetch"
    /\ LET r == fetch_url(response, TRUE, TRUE, FALSE)
       IN  /\ log' = log \o r.log
           /\ IF r.exc = "none"
              THEN data' = r.val /\ pc' = "check" /\ result' = result
              ELSE data' = data /\ pc' = "raised" /\ result' = Raised(r.exc, "fetch_url")
    /\ UNCHANGED <<mode, response, call_args, sort, channels_to_process,
                   sorted_channel_ids, sort_failed, output_lines, written, fs, fs0>>

\* lines 105-110
Check ==
    /\ mode = "generate_stirr_m3u"
    /\ pc = "check"
    /\ LET c == IF Truthy(data) THEN ContainsChannels(data) ELSE Return(FALSE, << >>)
       IN  IF c.exc # "none"
           THEN /\ pc' = "raised"
                /\ result' = Raised(c.exc, "generate_stirr_m3u:105")
                /\ UNCHANGED <<log, output_lines, channels_to_process>>
           ELSE IF ~c.val
           THEN /\ pc' = "done"
                /\ result' = Returned("generate_stirr_m3u:107")
                /\ log' = log \o <<"ERROR Failed to fetch or parse Stirr data.">>
                /\ UNCHANGED <<output_lines, channels_to_process>>
           ELSE IF data.t # "dict"
           THEN /\ pc' = "raised"
                /\ result' = Raised("AttributeError", "generate_stirr_m3u:110")
                /\ output_lines' = <<HeaderLine>>
                /\ UNCHANGED <<log, channels_to_process>>
           ELSE /\ pc' = "sort"
                /\ output_lines' = <<HeaderLine>>
                /\ channels_to_process' = Get(data, K_channels, PyDict(<< >>))
                /\ UNCHANGED <<log, result>>
    /\ UNCHANGED <<mode, response, call_args, sort, data, sorted_channel_ids,
                   sort_failed, written, fs, fs0>>

\* lines 113-120
Sort ==
    /\ mode = "generate_stirr_m3u"
    /\ pc = "sort"
    /\ IF channels_to_process.t # "dict"
       THEN \* .keys() raises in the try, and again in the except branch
            /\ pc' = "raised"
            /\ result' = Raised("AttributeError", "generate_stirr_m3u:120")
            /\ sort_failed' = TRUE
            /\ log' = log \o <<"WARNING Sorting failed for Stirr, using default order.">>
            /\ UNCHANGED sorted_channel_ids
       ELSE LET s == SortChannels(sort, channels_to_process)
            IN  /\ pc' = "build"
                /\ sorted_channel_ids' = s.order
                /\ sort_failed' = s.failed
                /\ log' = IF s.failed
                          THEN log \o <<"WARNING Sorting failed for Stirr, using default order.">>
                          ELSE log
                /\ UNCHANGED result
    /\ UNCHANGED <<mode, response, call_args, sort, data, channels_to_process,
                   output_lines, written, fs, fs0>>

\* how many channels the loop of line 123 has done
Built == (Len(output_lines) - 1) \div 2

\* lines 123-135: one turn of the loop
BuildEntry ==
    /\ mode = "generate_stirr_m3u"
    /\ pc = "build"
    /\ Built < Len(sorted_channel_ids)
    /\ LET e == ChannelLines(channels_to_process, sorted_channel_ids[Built + 1])
       IN  IF e.exc # "none"
           THEN /\ pc' = "raised"
                /\ result' = Raised(e.exc, "generate_stirr_m3u:123")
                /\ UNCHANGED output_lines
           ELSE /\ output_lines' = output_lines \o e.val
                /\ UNCHANGED <<pc, result>>
    /\ UNCHANGED <<mode, response, call_args, sort, data, channels_to_process,
                   sorted_channel_ids, sort_failed, written, fs, fs0, log>>

\* line 137, and write_m3u_file under each answer of the filesystem
Write ==
    /\ mode = "generate_stirr_m3u"
    /\ pc = "build"
    /\ Built = Len(sorted_channel_ids)
    /\ \E mk \in MakedirsOutcomes, io \in IoOutcomes :
         LET content == Concat(output_lines)
             w == write_m3u_file(fs, PLAYLIST_FILE, content, mk, io)
         IN  /\ written' = [filename |-> PLAYLIST_FILE, content |-> content]
             /\ fs' = w.fs
             /\ log' = log \o w.log
             /\ IF w.exc = "none"
                THEN pc' = "done" /\ result' = Returned("generate_stirr_m3u:137")
                ELSE pc' = "raised" /\ result' = Raised(w.exc, "write_m3u_file")
    /\ UNCHANGED <<mode, response, call_args, sort, data, channels_to_process,
                   sorted_channel_ids, sort_failed, output_lines, fs0>>

NextGenerate == Fetch \/ Check \/ Sort \/ BuildEntry \/ Write

\* catalogs of every shape, and every failure of the fetch
Init ==
    InitGenerate(FailedResponses
                    \cup {OkResponse(v) : v \in OtherData}
                    \cup {OkResponse(Catalog(r)) : r \in SeqsUpTo(ShapeRecords, MaxChannels)},
                 {"name", "chno", "title"}, FsStates)
Next == NextGenerate
Spec == Init /\ [][Next]_vars

\* catalogs whose channels differ in their names, sorted by name
InitName ==
    InitGenerate({OkResponse(Catalog(r)) : r \in SeqsUpTo(NameRecords, MaxSortChannels)},
                 {"name", "title"}, FsStates)
SpecName == InitName /\ [][NextGenerate]_vars

\* catalogs whose channels differ in their numbers, sorted by number
InitChno ==
    InitGenerate({OkResponse(Catalog(r)) : r \in SeqsUpTo(ChnoRecords, MaxSortChannels)},
                 {"chno"}, FsStates)
SpecChno == InitChno /\ [][NextGenerate]_vars

-----------------------------------------------------------------------------
(* fetch_url and format_extinf called on their own *)

InitCall(fn, args) ==
    /\ mode = fn
    /\ pc = "call"
    /\ call_args \in args
    /\ result = NoResult
    /\ sort = "name"
    /\ fs0 = [dir |-> FALSE, file |-> NoFile]
    /\ fs = fs0
    /\ data = Unset
    /\ channels_to_process = Unset
    /\ sorted_channel_ids = << >>
    /\ sort_failed = FALSE
    /\ output_lines = << >>
    /\ written = NotCalled
    /\ log = << >>

NoResponse == [net |-> "none", content |-> Bytes("empty", TRUE, EmptyText)]

FetchArgs == [is_json : BOOLEAN, is_gzipped : BOOLEAN, stream : BOOLEAN]

InitFetch == InitCall("fetch_url", FetchArgs) /\ response \in Responses

\* fetch_url(url, is_json, is_gzipped, None, stream), from call to return
FetchCall ==
    /\ mode = "fetch_url"
    /\ pc = "call"
    /\ LET r == fetch_url(response, call_args.is_json, call_args.is_gzipped, call_args.stream)
       IN  /\ result' = [exc |-> r.exc, val |-> r.val, at |-> "fetch_url"]
           /\ log' = r.log
           /\ pc' = IF r.exc = "none" THEN "returned" ELSE "raised"
    /\ UNCHANGED <<mode, response, call_args, sort, data, channels_to_process,
                   sorted_channel_ids, sort_failed, output_lines, written, fs, fs0>>

NextFetch == FetchCall
SpecFetch == InitFetch /\ [][NextFetch]_vars

NewsLive == News \o <<COMMA, " ", "L", "i", "v", "e">>

FormatArgs ==
    [channel_id   : {PyStr(<<"s", "1">>)},
     tvg_id       : {PyStr(<<"s", "1">>)},
     tvg_chno     : {None, PyInt(7), PyStr(<<"x">>)},
     tvg_name     : {PyStr(s) : s \in Strings({"a", DQ, COMMA}, MaxLen)} \cup {None},
     tvg_logo     : {PyStr(<<"l">>)},
     group_title  : {PyStr(s) : s \in Strings({"g", DQ}, MaxLen)},
     display_name : {PyStr(s) : s \in Strings({"a", DQ, COMMA}, MaxLen)}
                        \cup {PyStr(NewsLive)}]

InitFormat == InitCall("format_extinf", FormatArgs) /\ response = NoResponse

\* format_extinf(...), from call to return
FormatCall ==
    /\ mode = "format_extinf"
    /\ pc = "call"
    /\ LET a == call_args
           r == format_extinf(a.channel_id, a.tvg_id, a.tvg_chno, a.tvg_name, a.tvg_logo,
                              a.group_title, a.display_name)
       IN  /\ result' = [exc |-> r.exc, val |-> r.val, at |-> "format_extinf"]
           /\ pc' = IF r.exc = "none" THEN "returned" ELSE "raised"
    /\ UNCHANGED <<mode, response, call_args, sort, data, channels_to_process,
                   sorted_channel_ids, sort_failed, output_lines, written, fs, fs0, log>>

NextFormat == FormatCall
SpecFormat == InitFormat /\ [][NextFormat]_vars

-----------------------------------------------------------------------------
(* Reading a playlist back, as a player does *)

\* the first position at or after `from` where the line holds the atom, else 0
IndexFrom(line, atom, from) ==
    IF \E k \in from..Len(line) : line[k] = atom
    THEN CHOOSE k \in from..Len(line) :
            line[k] = atom /\ \A j \in from..(k - 1) : line[j] # atom
    ELSE 0

\* the position of the quote that closes the attribute's value
AttrClose(line, key) == IndexFrom(line, DQ, IndexFrom(line, key, 1) + 2)
\* the value of an attribute: from its opening quote to the next quote
AttrValue(line, key) ==
    SubSeq(line, IndexFrom(line, key, 1) + 2, AttrClose(line, key) - 1)
\* the display name: what follows the comma after the last attribute
DisplayName(line) == SubSeq(line, AttrClose(line, " group-title=") + 2, Len(line) - 1)

\* the text cut into lines, each with its newline
RECURSIVE SplitLines(_)
SplitLines(text) ==
    IF text = << >> THEN << >>
    ELSE LET n == IndexFrom(text, NL, 1)
         IN  IF n = 0 THEN <<text>>
             ELSE <<SubSeq(text, 1, n)>> \o SplitLines(SubSeq(text, n + 1, Len(text)))

Has(s, atom) == \E k \in 1..Len(s) : s[k] = atom
IsPermutation(a, b) ==
    /\ Len(a) = Len(b)
    /\ \A k \in 1..Len(a) : \E j \in 1..Len(b) : a[k] = b[j]
    /\ \A k, j \in 1..Len(a) : a[k] = a[j] => k = j
\* where the catalog holds the id
Position(channels, id) == CHOOSE k \in 1..Len(channels.items) : channels.items[k][1] = id

Generating == mode = "generate_stirr_m3u"
Ended == pc \in {"done", "raised"}
AfterSort == Generating /\ pc \in {"build", "done", "raised"} /\ channels_to_process.t = "dict"
StreamUrl(id) == <<"https://jmp2.uk/str-">> \o id \o <<".m3u8", NL>>

-----------------------------------------------------------------------------
(* The claims *)

\* C1: the content handed to write_m3u_file is one #EXTM3U header line and
\* then exactly 2*N lines: for the i-th id of the order, an #EXTINF line and
\* right after it the stream URL of that id; every key of the catalog is in
\* exactly one pair.
C1_HeaderAndTwoLinesPerChannel ==
    (Generating /\ written # NotCalled) =>
        LET lines == SplitLines(written.content)
            n == Len(channels_to_process.items)
        IN  /\ Len(lines) = 1 + 2 * n
            /\ lines[1] = HeaderLine
            /\ IsPermutation(sorted_channel_ids, Keys(channels_to_process))
            /\ \A k \in 1..n :
                  /\ lines[2 * k][1] = "#EXTINF:-1 channel-id="
                  /\ AttrValue(lines[2 * k], "#EXTINF:-1 channel-id=") = sorted_channel_ids[k]
                  /\ lines[2 * k + 1] = StreamUrl(sorted_channel_ids[k])

\* the parsed value has no 'channels' field
LacksChannels(v) == v.t # "dict" \/ ~HasKey(v, K_channels)

\* C2: when fetch_url gives None or a value without the 'channels' field,
\* generate_stirr_m3u logs an error and returns: write_m3u_file is not
\* called, the filesystem is untouched, nothing is raised.
C2_NoChannelsNoWriteNoRaise ==
    (Generating /\ data # Unset /\ LacksChannels(data) /\ pc # "check") =>
        /\ pc = "done"
        /\ written = NotCalled
        /\ fs = fs0
        /\ log[Len(log)] = "ERROR Failed to fetch or parse Stirr data."

\* C3: generate_stirr_m3u never ends by raising, whatever was fetched and
\* whatever the filesystem answers.
C3_GenerateNeverRaises == Generating => pc # "raised"

HasChno(id) == HasKey(Lookup(channels_to_process, id), K_chno)
\* the number of a channel that has one, as an integer
ChnoNumber(id) ==
    LET v == Lookup(Lookup(channels_to_process, id), K_chno)
    IN  IF v.t = "int" THEN v.i ELSE DigitsToNat(v.s)
\* the number the channel is ordered by
ChnoKey(id) == IF HasChno(id) THEN ChnoNumber(id) ELSE MissingChno
\* int() takes the channel's number
ChnoConverts(id) ==
    LET channel == Lookup(channels_to_process, id)
    IN  /\ channel.t = "dict"
        /\ HasKey(channel, K_chno) =>
              \/ Lookup(channel, K_chno).t = "int"
              \/ Lookup(channel, K_chno).t = "str" /\ IsDigitStr(Lookup(channel, K_chno).s)

\* C4 as stated: with sort='chno' (and no sort key raising) the order is
\* ascending by channel number and every channel without a number comes
\* after every channel with one, whatever the numbers.
C4_MissingNumberAlwaysLast ==
    (AfterSort /\ sort = "chno" /\ ~sort_failed) =>
        \A i, j \in 1..Len(sorted_channel_ids) :
            LET a == sorted_channel_ids[i]
                b == sorted_channel_ids[j]
            IN  /\ (HasChno(a) /\ HasChno(b) /\ i < j) => ChnoNumber(a) <= ChnoNumber(b)
                /\ (HasChno(a) /\ ~HasChno(b)) => i < j

\* C4 amended: with sort='chno', if int() takes every number present, the
\* order is ascending by that integer with a channel without a number
\* ordered as MissingChno (equal keys keep the catalog's order), so such a
\* channel follows every channel numbered below MissingChno and precedes
\* every channel numbered above it; if int() refuses a number present, the
\* order is the catalog's insertion order.
C4_MissingNumberOrderedAsSentinel ==
    (AfterSort /\ sort = "chno") =>
        LET ids == Keys(channels_to_process)
            all == {ids[k] : k \in 1..Len(ids)}
        IN  /\ sort_failed <=> \E x \in all : ~ChnoConverts(x)
            /\ sort_failed => sorted_channel_ids = ids
            /\ ~sort_failed =>
                 /\ IsPermutation(sorted_channel_ids, ids)
                 /\ \A i, j \in 1..Len(sorted_channel_ids) :
                       LET a == sorted_channel_ids[i]
                           b == sorted_channel_ids[j]
                       IN  i < j =>
                             /\ ChnoKey(a) <= ChnoKey(b)
                             /\ ChnoKey(a) = ChnoKey(b) =>
                                   Position(channels_to_process, a)
                                       < Position(channels_to_process, b)
                             /\ (~HasChno(a) /\ HasChno(b)) => ChnoNumber(b) >= MissingChno
                             /\ (HasChno(a) /\ ~HasChno(b)) => ChnoNumber(a) <= MissingChno

\* a playlist was written from <<30, 10, none>>: 10, 30, then the channel
\* without a number
C4_Witness ==
    /\ AfterSort /\ sort = "chno" /\ pc = "done" /\ ~sort_failed
    /\ Len(sorted_channel_ids) = 3
    /\ Keys(channels_to_process) = <<ChannelIds[1], ChannelIds[2], ChannelIds[3]>>
    /\ HasChno(ChannelIds[1]) /\ ChnoNumber(ChannelIds[1]) = 30
    /\ HasChno(ChannelIds[2]) /\ ChnoNumber(ChannelIds[2]) = 10
    /\ ~HasChno(ChannelIds[3])
    /\ sorted_channel_ids = <<ChannelIds[2], ChannelIds[1], ChannelIds[3]>>
    /\ fs.file = PyStr(written.content)

HasName(id) == HasKey(Lookup(channels_to_process, id), K_name)
\* the name the channel is ordered by: lower case, empty when it has none
NameKey(id) ==
    IF HasName(id) THEN Lower(Lookup(Lookup(channels_to_process, id), K_name).s) ELSE << >>

\* C5: with sort='name', or any sort other than 'chno', the order used for
\* the output is ascending by lower-cased name (names that differ in case
\* alone are equal and keep the catalog's order), a channel without a name
\* is ordered as the empty name, before every non-empty name, and is
\* displayed as 'Unknown Channel'.
C5_NameOrderIgnoresCase ==
    (AfterSort /\ sort # "chno") =>
        /\ written # NotCalled => ~sort_failed
        /\ ~sort_failed =>
             /\ IsPermutation(sorted_channel_ids, Keys(channels_to_process))
             /\ \A i, j \in 1..Len(sorted_channel_ids) :
                   LET a == sorted_channel_ids[i]
                       b == sorted_channel_ids[j]
                   IN  i < j =>
                         /\ ~StrLess(NameKey(b), NameKey(a))
                         /\ NameKey(a) = NameKey(b) =>
                               Position(channels_to_process, a)
                                   < Position(channels_to_process, b)
                         /\ (HasName(a) /\ ~HasName(b)) => NameKey(a) = << >>
             /\ \A k \in 1..Built :
                   /\ AttrValue(output_lines[2 * k], "#EXTINF:-1 channel-id=")
                         = sorted_channel_ids[k]
                   /\ ~HasName(sorted_channel_ids[k]) =>
                         DisplayName(output_lines[2 * k]) = <<"Unknown Channel">>

\* a playlist was written from <<zebra, Apple, no name>>: the channel
\* without a name, Apple, zebra
C5_Witness ==
    /\ AfterSort /\ sort = "name" /\ pc = "done" /\ ~sort_failed
    /\ channels_to_process =
          PyDict(<< <<ChannelIds[1], Field(K_name, PyStr(zebra))>>,
                    <<ChannelIds[2], Field(K_name, PyStr(Apple))>>,
                    <<ChannelIds[3], PyDict(<< >>)>> >>)
    /\ sorted_channel_ids = <<ChannelIds[3], ChannelIds[2], ChannelIds[1]>>
    /\ DisplayName(output_lines[2]) = <<"Unknown Channel">>
    /\ fs.file = PyStr(written.content)

\* C6: when a sort key raises, a warning is logged, the catalog's insertion
\* order is used, every entry is built and write_m3u_file is called: the
\* generation is not aborted.
C6_SortFailureNeverAborts ==
    (Generating /\ sort_failed /\ Ended) =>
        /\ pc = "done"
        /\ written # NotCalled
        /\ sorted_channel_ids = Keys(channels_to_process)
        /\ Built = Len(sorted_channel_ids)

Fetched == mode = "fetch_url" /\ pc # "call"
StatusOk == response.net = "ok"
\* gzip refuses the body for another reason than its magic
GzipFailure == call_args.is_gzipped /\ response.content.enc = "truncated"
\* the bytes to decode are no UTF-8: the payload of a gzip body that was
\* gunzipped, else the body as it came
DecodeFailure ==
    CASE response.content.enc = "empty" -> FALSE
      [] response.content.enc = "plain" -> ~response.content.utf8
      [] response.content.enc = "gzip"  ->
            IF call_args.is_gzipped THEN ~response.content.utf8 ELSE TRUE
      [] response.content.enc = "truncated" -> ~call_args.is_gzipped
      [] OTHER -> TRUE
DecodedText ==
    IF response.content.enc = "empty" THEN EmptyText ELSE response.content.text
JsonFailure == call_args.is_json /\ DecodedText.kind # "json"
FetchFails ==
    \/ ~StatusOk
    \/ ~call_args.stream /\ (GzipFailure \/ DecodeFailure \/ JsonFailure)

NotGzipBody ==
    /\ Fetched /\ StatusOk /\ ~call_args.stream
    /\ call_args.is_gzipped /\ response.content.enc \in {"plain", "trailing"}

\* C8: with is_gzipped=True and a body that gzip refuses as no gzip data,
\* the gzip error does not fail the fetch: a warning is logged, the body is
\* decoded as UTF-8 text and the result is that text, or its JSON value with
\* is_json (None when the body is no UTF-8 or no JSON), which is the result
\* of the same call with is_gzipped=False.
C8_NotGzipFallsBackToText ==
    NotGzipBody =>
        /\ result.exc = "none"
        /\ \E k \in 1..Len(log) :
              log[k] = "WARNING Content was not gzipped, trying as plain text."
        /\ result.val = fetch_url(response, call_args.is_json, FALSE, FALSE).val
        /\ result.val =
              IF response.content.enc # "plain" \/ ~response.content.utf8 THEN None
              ELSE IF ~call_args.is_json THEN response.content.text
              ELSE IF response.content.text.kind = "json" THEN response.content.text.value
              ELSE None

\* plain JSON text fetched with is_gzipped=True gave its value
C8_Witness ==
    /\ NotGzipBody /\ call_args.is_json /\ response.content.utf8
    /\ response.content.enc = "plain"
    /\ response.content.text = JsonText(PyInt(5))
    /\ result.val = PyInt(5)

\* C9: write_m3u_file never raises on a filesystem failure: whether creating
\* the directory, opening the file or writing fails, it logs an error and
\* returns; on success the directory exists and the file holds the content.
C9_WriteNeverRaises ==
    (Generating /\ written # NotCalled) =>
        /\ pc = "done"
        /\ IF log[Len(log)] = "INFO Successfully wrote playlist"
           THEN fs.dir /\ fs.file = PyStr(written.content)
           ELSE log[Len(log)] = "ERROR Error writing file"

FormatReturned == mode = "format_extinf" /\ pc = "returned"
NotComma(c) == c # COMMA
\* s with each double quote turned into a single quote
Requoted(s) == [k \in 1..Len(s) |-> IF s[k] = DQ THEN SQ ELSE s[k]]

\* C10: the line format_extinf returns holds the attributes in the order
\* channel-id, tvg-id, tvg-chno, tvg-name, tvg-logo, group-title; the values
\* of tvg-name and group-title are the inputs with each double quote turned
\* into a single quote, and hold no double quote; the display name after
\* the separating comma is the input with its commas removed, and holds no
\* comma.
C10_LineIsFormatSafe ==
    FormatReturned =>
        LET line == result.val.s
            name == AttrValue(line, " tvg-name=")
            group == AttrValue(line, " group-title=")
            display == DisplayName(line)
        IN  /\ IndexFrom(line, "#EXTINF:-1 channel-id=", 1) = 1
            /\ 1 < IndexFrom(line, " tvg-id=", 1)
            /\ IndexFrom(line, " tvg-id=", 1) < IndexFrom(line, " tvg-chno=", 1)
            /\ IndexFrom(line, " tvg-chno=", 1) < IndexFrom(line, " tvg-name=", 1)
            /\ IndexFrom(line, " tvg-name=", 1) < IndexFrom(line, " tvg-logo=", 1)
            /\ IndexFrom(line, " tvg-logo=", 1) < IndexFrom(line, " group-title=", 1)
            /\ ~Has(name, DQ) /\ name = Requoted(call_args.tvg_name.s)
            /\ ~Has(group, DQ) /\ group = Requoted(call_args.group_title.s)
            /\ line[AttrClose(line, " group-title=") + 1] = COMMA
            /\ ~Has(display, COMMA)
            /\ display = SelectSeq(call_args.display_name.s, NotComma)
            /\ line[Len(line)] = NL

\* 'News, Live' with a quoted tvg-name was rendered as 'News Live'
C10_Witness ==
    /\ FormatReturned
    /\ call_args.display_name = PyStr(NewsLive)
    /\ Has(call_args.tvg_name.s, DQ) /\ Has(call_args.group_title.s, DQ)
    /\ DisplayName(result.val.s) = News \o <<" ", "L", "i", "v", "e">>

=============================================================================
